---- MODULE Spec2Model ----
(***************************************************************************)
(* Minute-bucketed streaming aggregation (utils/agg.py, MinuteAverager)    *)
(* and the poll loop that feeds it (logger.py, main).                      *)
(*                                                                         *)
(* Numbers: every metric value and every sum is an exact number; the       *)
(* float quotient sum / n is kept as the reduced fraction <<num, den>>.    *)
(* A nullable value is <<>> (None) or <<x>>.                               *)
(* Timestamps: whole seconds since the start of the first modelled day     *)
(* (the ISO-8601 'Z' string of the source, read as a number).              *)
(***************************************************************************)
EXTENDS Integers, Sequences, FiniteSets, TLC

\* ------------------------------------------------------------------ bounds
\* Number of API calls made on the Averager in one run of Spec.
MaxOps == 3
\* Number of API calls made on the Averager in one run of SpecCap.
MaxCapOps == 3
\* Minutes a run of SpecLong goes on past a full series of 1440 records.
LongExtra == 2
\* Last minute of the stream of SpecLong in which replace_series may be called.
ResumeMinutes == 1
\* Number of replace_series calls made in one run of SpecLong.
MaxLongReplaces == 1
\* Wall-clock second at which the poll loop of SpecLoop starts (23:59:00 of day 0).
StartClock == 86340
\* Seconds of wall-clock time a run of SpecLoop covers.
RunSeconds == 70

\* Levels a side of an upstream order book response.
MaxLevels == 2

\* Seconds of wall-clock time a run of SpecGather covers.
GatherSeconds == 2
\* Seconds from the start of a run in which a fetch may end in any of Outcomes;
\* later fetches end in one of LaterOutcomes.
AllOutcomesSeconds == 2

\* UTC midnights a run of the composer covers.
ComposerDays == 2
\* Seconds a compose_day call may take.
ComposeSeconds == 7

\* ------------------------------------------------------- program constants
\* agg.py:94-95 : the series cap.
SeriesCap == 1440
\* agg.py:6 : seconds per minute bucket.
SecondsPerMinute == 60
\* logger.py:113 : seconds per UTC day (now_dt.date()).
SecondsPerDay == 86400
\* composer.py:28 : now.hour == 0
SecondsPerHour == 3600
\* composer.py:28 : now.minute >= 3
compose_minute == 3
\* composer.py:33 : time.sleep(120)
composer_sleep == 120
\* logger.py:39 : row_interval_seconds, its default.
row_interval == 1
\* logger.py:40 : upload_interval_seconds, its default.
upload_interval == 60
\* logger.py:72 : httpx.Timeout(5.0), the longest a fetch takes.
fetch_timeout == 5

\* ------------------------------------------------------------------ values
None == <<>>
Some(x) == <<x>>

Exchanges == {"coinbase", "kraken"}
Assets == {"ADA", "BTC"}

\* logger.py:56-61 : enabled[ex]["symbols"], the per-exchange symbol lists of config.yaml
symbols(ex_name) == IF ex_name = "coinbase" THEN {"ADA", "BTC"} ELSE {"ADA"}

\* logger.py:130-134 : the enabled (exchange, asset) pairs
Pairs == {p \in Exchanges \X Assets : p[2] \in symbols(p[1])}

\* logger.py:108,193 : f"{ex_name}:{asset}"
series_key(ex_name, asset) == ex_name \o ":" \o asset

PairKeys == {series_key(p[1], p[2]) : p \in Pairs}
Keys == Assets \cup PairKeys

\* Timestamps fed in Spec: two in minute 0, one in minute 1, one in minute 2.
Stamps == {7, 42, 61, 125}

TickNull ==
    [price |-> None, spread_raw |-> None, s5 |-> None, s20 |-> None,
     s50 |-> None, s100 |-> None, bidv50 |-> None, askv50 |-> None]
TickA ==
    [price |-> Some(2), spread_raw |-> Some(1), s5 |-> Some(1), s20 |-> Some(2),
     s50 |-> Some(3), s100 |-> Some(4), bidv50 |-> Some(5), askv50 |-> Some(6)]
TickB ==
    [price |-> Some(5), spread_raw |-> None, s5 |-> Some(3), s20 |-> None,
     s50 |-> Some(1), s100 |-> None, bidv50 |-> Some(0), askv50 |-> Some(7)]
Ticks == {TickNull, TickA, TickB}

\* ------------------------------------------------------------ arithmetic
RECURSIVE GCD(_, _)
GCD(a, b) == IF b = 0 THEN a ELSE GCD(b, a % b)

\* The float quotient a / n (n >= 1) as a reduced fraction.
Div(a, n) == LET g == GCD(a, n) IN <<a \div g, n \div g>>

Max(a, b) == IF a >= b THEN a ELSE b

Min(a, b) == IF a <= b THEN a ELSE b

\* lst[-k:] for k >= 1
LastK(lst, k) ==
    IF Len(lst) <= k THEN lst ELSE SubSeq(lst, Len(lst) - k + 1, Len(lst))

Range(f) == {f[i] : i \in DOMAIN f}

\* ---------------------------------------------------------------- state
VARIABLES
    state,      \* MinuteAverager.state  : key -> open accumulator (absent = None)
    series,     \* MinuteAverager.series : key -> list of finalized records
    shared,     \* MinuteAverager.series : key -> the keys whose series is the same list
                \* object as this key's (none when the value is not a list)
    blobJson,   \* blob store: daily JSON key -> rows (absent = no blob)
    blobCsv,    \* blob store: daily CSV key -> rows (absent = no blob)
    localCsv,   \* local disk: CSV path -> rows (absent = no file)
    loop,       \* logger.main: position and locals of the poll loop
    nOps,       \* number of calls made so far
    lastOp,     \* history: the call made last
    fed,        \* history: per key, the ticks add was given since the key was last replaced
    resumed,    \* history: per key, the rows of the last replace_series
    finalized,  \* history: the records add has finalized
    dropped,    \* history: per key, whether the last replace_series found an open accumulator
    feed,       \* history: per key, since the key was last replaced and ever: the minutes ticks fell in,
                \* the last tick's timestamp, whether timestamps never decreased
    fetched,    \* the last adapter call: adapter, upstream response, returned book
    composer    \* composer.run_loop: position, clock and locals, and the days composed

vars ==
    <<state, series, shared, blobJson, blobCsv, localCsv, loop, nOps, lastOp, fed,
      resumed, finalized, dropped, feed, fetched, composer>>

\* Mutant of minute_bucket: the seconds are not zeroed.
minute_bucket_untruncated(ts_iso) == ts_iso

\* agg.py:3-7
minute_bucket(ts_iso) == ts_iso - (ts_iso % SecondsPerMinute)

\* agg.py:39 and the "or 0.0" of 45-52
v(x) == IF x = None THEN 0 ELSE x[1]

\* Mutant of _start: the new accumulator is not seeded with the tick's values.
_start_unseeded(key, exchange, asset, tk) ==
    [key |-> key, exchange |-> exchange, asset |-> asset, n |-> 1,
     price_sum |-> 0, spread_raw_sum |-> 0, s5_sum |-> 0, s20_sum |-> 0,
     s50_sum |-> 0, s100_sum |-> 0, bidv50_sum |-> 0, askv50_sum |-> 0]

\* agg.py:38-53
_start(key, exchange, asset, tk) ==
    [key |-> key, exchange |-> exchange, asset |-> asset, n |-> 1,
     price_sum |-> v(tk.price), spread_raw_sum |-> v(tk.spread_raw),
     s5_sum |-> v(tk.s5), s20_sum |-> v(tk.s20), s50_sum |-> v(tk.s50),
     s100_sum |-> v(tk.s100), bidv50_sum |-> v(tk.bidv50), askv50_sum |-> v(tk.askv50)]

\* Mutant of _update: a tick with a null price is not counted in n.
_update_skip_null_price(st, tk) ==
    [st EXCEPT !.n = IF tk.price = None THEN @ ELSE @ + 1,
               !.price_sum = @ + v(tk.price),
               !.spread_raw_sum = @ + v(tk.spread_raw),
               !.s5_sum = @ + v(tk.s5),
               !.s20_sum = @ + v(tk.s20),
               !.s50_sum = @ + v(tk.s50),
               !.s100_sum = @ + v(tk.s100),
               !.bidv50_sum = @ + v(tk.bidv50),
               !.askv50_sum = @ + v(tk.askv50)]

\* agg.py:55-67
_update(st, tk) ==
    [st EXCEPT !.n = @ + 1,
               !.price_sum = @ + v(tk.price),
               !.spread_raw_sum = @ + v(tk.spread_raw),
               !.s5_sum = @ + v(tk.s5),
               !.s20_sum = @ + v(tk.s20),
               !.s50_sum = @ + v(tk.s50),
               !.s100_sum = @ + v(tk.s100),
               !.bidv50_sum = @ + v(tk.bidv50),
               !.askv50_sum = @ + v(tk.askv50)]

\* agg.py:69-83
_finalize(st) ==
    LET n == Max(1, st.n) IN
    [t |-> st.key, exchange |-> st.exchange, asset |-> st.asset,
     price_avg |-> Div(st.price_sum, n),
     spread_raw_avg |-> Div(st.spread_raw_sum, n),
     spread_L5_pct_avg |-> Div(st.s5_sum, n),
     spread_L20_pct_avg |-> Div(st.s20_sum, n),
     spread_L50_pct_avg |-> Div(st.s50_sum, n),
     spread_L100_pct_avg |-> Div(st.s100_sum, n),
     bid_volume_L50_avg |-> Div(st.bidv50_sum, n),
     ask_volume_L50_avg |-> Div(st.askv50_sum, n)]

\* dict.get(k, []) on MinuteAverager.series
series_get(s, k) == IF k \in DOMAIN s THEN s[k] ELSE <<>>

\* dict assignment d[k] = x
Put(d, k, x) == [j \in (DOMAIN d) \cup {k} |-> IF j = k THEN x ELSE d[j]]

\* agg.py:92-95 : append the finalized record, keep the last 1440
append_capped(rows, rec) ==
    LET appended == Append(rows, rec) IN
    IF Len(appended) > SeriesCap THEN LastK(appended, SeriesCap) ELSE appended

\* agg.py:93-95 : the series map after series[asset].append(rec) and the cap.
\* The append is made in place on the list object, so every key that holds
\* that object sees the record; the slice of line 95 is a new list, bound to
\* asset only.
append_in_place(s0, h0, asset, rec) ==
    Put([j \in DOMAIN s0 |-> IF j \in h0[asset] THEN Append(s0[j], rec) ELSE s0[j]],
        asset, append_capped(s0[asset], rec))

\* agg.py:87-88 : the list identities once asset has a series
with_series(av, asset) ==
    IF asset \in DOMAIN av.series THEN av.shared ELSE Put(av.shared, asset, {asset})

\* agg.py:93 : series[asset].append(...) on a value that is not a list (a None
\* given to replace_series) raises AttributeError, before anything is changed
add_raises(av, asset, ts_iso) ==
    /\ asset \in DOMAIN av.state
    /\ av.state[asset].key # minute_bucket(ts_iso)
    /\ av.shared[asset] = {}

\* Mutant of add_series: the open accumulator is finalized on every tick, also
\* on one of its own minute.
add_series_every_tick(av, exchange, asset, ts_iso, tk) ==
    LET s0 == IF asset \in DOMAIN av.series THEN av.series ELSE Put(av.series, asset, <<>>)
    IN  IF add_raises(av, asset, ts_iso) THEN av.series
        ELSE IF asset \in DOMAIN av.state
        THEN append_in_place(s0, with_series(av, asset), asset, _finalize(av.state[asset]))
        ELSE s0

\* agg.py:85-99 : the series map after add, av being the Averager [state, series, shared]
add_series(av, exchange, asset, ts_iso, tk) ==
    LET key == minute_bucket(ts_iso)
        s0  == IF asset \in DOMAIN av.series THEN av.series ELSE Put(av.series, asset, <<>>)
    IN  IF add_raises(av, asset, ts_iso) THEN av.series
        ELSE IF asset \in DOMAIN av.state /\ av.state[asset].key # key
        THEN append_in_place(s0, with_series(av, asset), asset, _finalize(av.state[asset]))
        ELSE s0

\* agg.py:85-99 : the accumulator map after add
add_state(av, exchange, asset, ts_iso, tk) ==
    LET key == minute_bucket(ts_iso) IN
    IF add_raises(av, asset, ts_iso) THEN av.state
    ELSE IF asset \notin DOMAIN av.state \/ av.state[asset].key # key
    THEN Put(av.state, asset, _start(key, exchange, asset, tk))
    ELSE Put(av.state, asset, _update(av.state[asset], tk))

\* agg.py:87-88, 94-95 : the list identities after add: a key without a series
\* gets a new list, and a series cut to the cap is a new list of its own
add_shared(av, exchange, asset, ts_iso, tk) ==
    LET h0 == with_series(av, asset)
        s1 == add_series(av, exchange, asset, ts_iso, tk)
    IN  IF add_raises(av, asset, ts_iso) THEN av.shared
        ELSE IF /\ asset \in DOMAIN av.state
                /\ av.state[asset].key # minute_bucket(ts_iso)
                /\ Len(series_get(av.series, asset)) + 1 > SeriesCap
        THEN [j \in DOMAIN s1 |-> IF j = asset THEN {asset} ELSE h0[j] \ {asset}]
        ELSE h0

\* agg.py:85-99 : the Averager after add
minute_add(av, exchange, asset, ts_iso, tk) ==
    [state  |-> add_state(av, exchange, asset, ts_iso, tk),
     series |-> add_series(av, exchange, asset, ts_iso, tk),
     shared |-> add_shared(av, exchange, asset, ts_iso, tk)]

\* The Averager object of the current state.
minute == [state |-> state, series |-> series, shared |-> shared]

\* agg.py:85-99
add(exchange, asset, ts_iso, tk) ==
    /\ series' = minute_add(minute, exchange, asset, ts_iso, tk).series
    /\ state' = minute_add(minute, exchange, asset, ts_iso, tk).state
    /\ shared' = minute_add(minute, exchange, asset, ts_iso, tk).shared

\* A value passed as rows: a list the Averager does not hold yet (json.loads
\* of a blob, a new []), ...
new_list(rows) == [list |-> TRUE, rows |-> rows, held_by |-> {}]

\* ... the list object the Averager holds under key k (the caller kept a
\* reference to it, or read it from minute.series), ...
list_of(av, k) == [list |-> av.shared[k] # {}, rows |-> av.series[k], held_by |-> av.shared[k]]

\* ... or None.
none_rows == [list |-> FALSE, rows |-> None, held_by |-> {}]

\* Mutant of replace_state: the in-progress accumulator is kept.
replace_state_keep(av, asset) == av.state

\* agg.py:101-103 : the accumulator map after replace_series (state[asset] = None)
replace_state(av, asset) == [j \in (DOMAIN av.state) \ {asset} |-> av.state[j]]

\* agg.py:102 : the list identities after series[asset] = rows: asset now holds
\* the object it was given, with the keys that held it already
replace_shared(av, asset, rows) ==
    LET holders == IF rows.list THEN rows.held_by \cup {asset} ELSE {} IN
    [j \in (DOMAIN av.series) \cup {asset} |->
        IF j = asset THEN holders
        ELSE IF j \in holders THEN holders
        ELSE av.shared[j] \ {asset}]

\* agg.py:101-103 : the Averager after replace_series; series[asset] is the
\* object given, not a copy
minute_replace(av, asset, rows) ==
    [state  |-> replace_state(av, asset),
     series |-> Put(av.series, asset, rows.rows),
     shared |-> replace_shared(av, asset, rows)]

\* agg.py:101-103
replace_series(asset, rows) ==
    /\ series' = minute_replace(minute, asset, rows).series
    /\ state' = minute_replace(minute, asset, rows).state
    /\ shared' = minute_replace(minute, asset, rows).shared

Empty == [j \in {} |-> <<>>]

\* The minutes ticks fell in, the last tick's timestamp, whether timestamps
\* never decreased: of no tick.
NoTicks == [minutes |-> {}, last |-> None, ordered |-> TRUE]

\* The same after one more tick at ts_iso.
Ticked(f, ts_iso) ==
    [minutes |-> f.minutes \cup {ts_iso \div SecondsPerMinute},
     last    |-> Some(ts_iso),
     ordered |-> f.ordered /\ (f.last = None \/ f.last[1] <= ts_iso)]

\* History of a key nothing was fed to: no tick since it was last replaced, none
\* ever, and a series list no other key has held.
NoFeed == [minutes |-> {}, last |-> None, ordered |-> TRUE, alone |-> TRUE, ever |-> NoTicks]

\* History after one more tick at ts_iso.
Fed(f, ts_iso) ==
    [minutes |-> Ticked(f, ts_iso).minutes,
     last    |-> Ticked(f, ts_iso).last,
     ordered |-> Ticked(f, ts_iso).ordered,
     alone   |-> f.alone,
     ever    |-> Ticked(f.ever, ts_iso)]

\* History of a key after replace_series gave it a list that other keys hold
\* (alone = FALSE) or that no other key holds.
Replaced(f, alone) == [NoFeed EXCEPT !.alone = alone, !.ever = f.ever]

\* agg.py:102 : the histories after replace_series(key, rows): the list is from
\* then on one that key and the keys in rows.held_by have held together.
feed_replaced(fd, key, rows) ==
    [j \in DOMAIN fd |->
        IF j = key THEN Replaced(fd[j], rows.held_by \ {key} = {})
        ELSE IF j \in rows.held_by THEN [fd[j] EXCEPT !.alone = FALSE]
        ELSE fd[j]]

\* logger.py:77-83 : the loop's locals before its first cycle, at wall-clock second c
LoopStart(c) ==
    [pc |-> "top", clock |-> c, now_iso |-> c, tick |-> c, current_day |-> None,
     local_paths |-> Empty, results |-> <<>>, idx |-> 1, last_upload |-> 0,
     error |-> None, inflight |-> {}, done |-> Empty]

\* composer.py:24 : the composer's locals, the composer not running
ComposerOff ==
    [pc |-> "off", now |-> 0, start |-> 0, last_day_done |-> None, composed |-> <<>>]

\* agg.py:34-36 : a new Averager; nothing stored, no loop running
Init ==
    /\ state = Empty
    /\ series = Empty
    /\ shared = Empty
    /\ blobJson = Empty
    /\ blobCsv = Empty
    /\ localCsv = Empty
    /\ loop = [LoopStart(0) EXCEPT !.pc = "off"]
    /\ nOps = 0
    /\ lastOp = [op |-> "init"]
    /\ fed = [k \in Keys |-> <<>>]
    /\ resumed = [k \in Keys |-> <<>>]
    /\ finalized = {}
    /\ dropped = [k \in Keys |-> FALSE]
    /\ feed = [k \in Keys |-> NoFeed]
    /\ fetched = None
    /\ composer = ComposerOff

\* add(exchange, asset, ts_iso, ...) called with the eleven arguments of agg.py:85
AddCall(exchange, asset, ts_iso, tk) ==
    /\ add(exchange, asset, ts_iso, tk)
    /\ nOps' = nOps + 1
    /\ lastOp' = [op |-> IF add_raises(minute, asset, ts_iso) THEN "add_raised" ELSE "add",
                  exchange |-> exchange, key |-> asset, ts |-> ts_iso, tick |-> tk]
    /\ fed' = IF add_raises(minute, asset, ts_iso) THEN fed
              ELSE [fed EXCEPT ![asset] = Append(@, [ts |-> ts_iso, tick |-> tk])]
    /\ finalized' =
         IF /\ asset \in DOMAIN state
            /\ state[asset].key # minute_bucket(ts_iso)
            /\ ~add_raises(minute, asset, ts_iso)
         THEN finalized \cup {_finalize(state[asset])}
         ELSE finalized
    /\ feed' = IF add_raises(minute, asset, ts_iso) THEN feed
               ELSE [feed EXCEPT ![asset] = Fed(@, ts_iso)]
    /\ UNCHANGED <<blobJson, resumed, dropped>>
    /\ UNCHANGED <<fetched, composer>>

\* A caller's add, outside the poll loop
Add(exchange, asset, ts_iso, tk) ==
    /\ AddCall(exchange, asset, ts_iso, tk)
    /\ UNCHANGED <<blobCsv, localCsv, loop>>

\* A record as a resumed daily JSON holds it (json.loads of an uploaded series).
ResumeRecord(exchange, asset, t) ==
    [t |-> t, exchange |-> exchange, asset |-> asset,
     price_avg |-> <<9, 1>>, spread_raw_avg |-> <<1, 2>>,
     spread_L5_pct_avg |-> <<1, 1>>, spread_L20_pct_avg |-> <<1, 1>>,
     spread_L50_pct_avg |-> <<1, 1>>, spread_L100_pct_avg |-> <<1, 1>>,
     bid_volume_L50_avg |-> <<3, 1>>, ask_volume_L50_avg |-> <<4, 1>>]

\* Rows a caller resumes a key with in Spec: none, or one record of minute 0.
ResumeRows == {<<>>, <<ResumeRecord("coinbase", "ADA", 0)>>}

\* A caller's replace_series(key, rows), rows being a list of its own or one
\* the Averager holds already
ReplaceSeries(key, rows) ==
    /\ replace_series(key, rows)
    /\ nOps' = nOps + 1
    /\ lastOp' = [op |-> "replace_series", key |-> key, rows |-> rows.rows,
                  held_by |-> rows.held_by]
    /\ fed' = [fed EXCEPT ![key] = <<>>]
    /\ resumed' = [resumed EXCEPT ![key] = rows.rows]
    /\ dropped' = [dropped EXCEPT ![key] = (key \in DOMAIN state)]
    /\ feed' = feed_replaced(feed, key, rows)
    /\ UNCHANGED <<blobJson, blobCsv, localCsv, loop, finalized>>
    /\ UNCHANGED <<fetched, composer>>

\* logger.py:192-194 : the rows the upload step writes to a pair's daily JSON key
upload_rows(ex_name, asset) == series_get(series, series_key(ex_name, asset))

\* gcs.py:27-29 : "{exchange}/{asset}/{asset}-{day_iso}.json"
daily_json_key(exchange, asset, day_iso) == <<exchange, asset, day_iso, "json">>

\* gcs.py:23-25 : "{exchange}/{asset}/{asset}-{day_iso}.csv"
daily_csv_key(exchange, asset, day_iso) == <<exchange, asset, day_iso, "csv">>

\* logger.py:192-194 : the JSON half of the periodic upload, for one pair
UploadJson(ex_name, asset, day_iso) ==
    /\ blobJson' = Put(blobJson, daily_json_key(ex_name, asset, day_iso),
                       upload_rows(ex_name, asset))
    /\ nOps' = nOps + 1
    /\ lastOp' = [op |-> "upload", exchange |-> ex_name, asset |-> asset, day |-> day_iso]
    /\ UNCHANGED <<state, series, shared, blobCsv, localCsv, loop, fed, resumed,
                   finalized, dropped, feed, fetched, composer>>

\* The Averager under calls of its API in any order, and the upload's read of it.
ApiAdd(exchange, asset, ts_iso, tk) == nOps < MaxOps /\ Add(exchange, asset, ts_iso, tk)

ApiReplace(key, rows) == nOps < MaxOps /\ ReplaceSeries(key, new_list(rows))

\* replace_series with the list object an asset's key holds: a list the caller
\* gave before and kept, or one read from minute.series
ApiReplaceHeld(key, k) ==
    /\ nOps < MaxOps
    /\ k \in DOMAIN series
    /\ ReplaceSeries(key, list_of(minute, k))

ApiUpload(ex_name, asset) == nOps < MaxOps /\ UploadJson(ex_name, asset, 0)

Next ==
    \/ \E p \in Pairs, ts \in Stamps, tk \in Ticks : ApiAdd(p[1], p[2], ts, tk)
    \/ \E k \in Keys, rows \in ResumeRows : ApiReplace(k, rows)
    \/ \E k \in Assets, k2 \in Assets : ApiReplaceHeld(k, k2)
    \/ \E p \in Pairs : ApiUpload(p[1], p[2])

Spec == Init /\ [][Next]_vars

\* ------------------------------------------------- a key resumed near the cap
\* A resumed series of n records, of minutes 0 .. n-1.
DayRows(n) == [i \in 1..n |-> ResumeRecord("coinbase", "ADA", (i - 1) * SecondsPerMinute)]

\* Rows a caller resumes a key with in SpecCap: one short of the cap, the cap, one more.
CapRows == {DayRows(SeriesCap - 1), DayRows(SeriesCap), DayRows(SeriesCap + 1)}

\* Timestamps fed in SpecCap: those of Stamps, after the resumed minutes.
CapStamps == {(SeriesCap + 1) * SecondsPerMinute + ts : ts \in Stamps}

CapReplace(key, rows) == nOps < MaxCapOps /\ ReplaceSeries(key, new_list(rows))

CapAdd(exchange, asset, ts_iso, tk) == nOps < MaxCapOps /\ Add(exchange, asset, ts_iso, tk)

NextCap ==
    \/ \E rows \in CapRows : CapReplace("ADA", rows)
    \/ \E ts \in CapStamps, tk \in {TickA, TickNull} : CapAdd("coinbase", "ADA", ts, tk)

SpecCap == Init /\ [][NextCap]_vars

\* ------------------------------------------------ one key fed for over a day
\* The next timestamp of the stream of SpecLong: the first at second 5 of minute 1
\* (minute 0 is that of a resumed record); then 30 seconds later in the same
\* minute, or second 5 of the next minute. A replace_series does not stop the
\* clock.
LongStamps ==
    IF feed["ADA"].ever.last = None THEN {SecondsPerMinute + 5}
    ELSE LET last == feed["ADA"].ever.last[1]
             m    == last \div SecondsPerMinute
         IN  {ts \in {last + 30, (m + 1) * SecondsPerMinute + 5} :
                 /\ ts \div SecondsPerMinute <= m + 1
                 /\ ts \div SecondsPerMinute <= SeriesCap + LongExtra}

\* One tick of the stream: add with arguments as in Add; the calls are not counted
\* and the tick log is not kept.
LongAdd(exchange, asset, ts_iso, tk) ==
    /\ add(exchange, asset, ts_iso, tk)
    /\ lastOp' = [op |-> "add", exchange |-> exchange, key |-> asset,
                  ts |-> ts_iso, tick |-> tk]
    /\ feed' = [feed EXCEPT ![asset] = Fed(@, ts_iso)]
    /\ UNCHANGED <<blobJson, blobCsv, localCsv, loop, nOps, fed, resumed, finalized, dropped>>
    /\ UNCHANGED <<fetched, composer>>

\* Rows the stream's key is resumed with: none, or the record of minute 0.
LongRows == {<<>>, DayRows(1)}

\* The stream has not started or is in one of its first minutes.
LongEarly ==
    IF feed["ADA"].ever.last = None THEN TRUE
    ELSE feed["ADA"].ever.last[1] \div SecondsPerMinute <= ResumeMinutes

\* replace_series for the stream's key, before the stream or in its first
\* minutes, with a list of the caller's own
LongReplace(rows) ==
    /\ nOps < MaxLongReplaces
    /\ LongEarly
    /\ ReplaceSeries("ADA", new_list(rows))
    /\ UNCHANGED <<blobCsv, localCsv, loop>>

\* replace_series for another key with the list object the stream's key holds
LongReplaceHeld ==
    /\ nOps < MaxLongReplaces
    /\ LongEarly
    /\ "ADA" \in DOMAIN series
    /\ ReplaceSeries("BTC", list_of(minute, "ADA"))
    /\ UNCHANGED <<blobCsv, localCsv, loop>>

NextLong ==
    \/ \E ts \in LongStamps : LongAdd("coinbase", "ADA", ts, TickA)
    \/ \E rows \in LongRows : LongReplace(rows)
    \/ LongReplaceHeld

SpecLong == Init /\ [][NextLong]_vars

\* ------------------------------------------------------------- adapters
\* An upstream response: the (price, size) levels it lists, in the order it lists
\* them, and ok = whether it carries a book at all (kraken: a non-empty
\* "result"; bybit: retCode 0 and a non-empty "list"; cryptocom: a supported
\* base, code 0 and non-empty "data" for the preferred or the fallback pair).
\* Prices are even numbers, so that the mid (best_bid + best_ask) / 2.0 is whole.
Levels == {<<0, 1>>, <<98, 2>>, <<102, 3>>}

RECURSIVE Sides(_)
Sides(n) ==
    IF n = 0 THEN {<<>>}
    ELSE Sides(n - 1) \cup {Append(sd, lv) : sd \in {x \in Sides(n - 1) : Len(x) = n - 1},
                                             lv \in Levels}

Responses == [ok : BOOLEAN, bids : Sides(MaxLevels), asks : Sides(MaxLevels)]

\* list.sort(key=lambda x: x[0]) : stable insertion of a level by ascending price
RECURSIVE insert_asc(_, _)
insert_asc(sorted, lv) ==
    IF sorted = <<>> THEN <<lv>>
    ELSE IF sorted[Len(sorted)][1] <= lv[1] THEN Append(sorted, lv)
    ELSE Append(insert_asc(SubSeq(sorted, 1, Len(sorted) - 1), lv), sorted[Len(sorted)])

RECURSIVE sort_asc(_)
sort_asc(rows) ==
    IF rows = <<>> THEN <<>>
    ELSE insert_asc(sort_asc(SubSeq(rows, 1, Len(rows) - 1)), rows[Len(rows)])

\* list.sort(key=lambda x: x[0], reverse=True) : stable, by descending price
RECURSIVE insert_desc(_, _)
insert_desc(sorted, lv) ==
    IF sorted = <<>> THEN <<lv>>
    ELSE IF sorted[Len(sorted)][1] >= lv[1] THEN Append(sorted, lv)
    ELSE Append(insert_desc(SubSeq(sorted, 1, Len(sorted) - 1), lv), sorted[Len(sorted)])

RECURSIVE sort_desc(_)
sort_desc(rows) ==
    IF rows = <<>> THEN <<>>
    ELSE insert_desc(sort_desc(SubSeq(rows, 1, Len(rows) - 1)), rows[Len(rows)])

\* bids[0][0] if bids else None
best(rows) == IF rows = <<>> THEN None ELSE Some(rows[1][1])

\* Python truth of an optional number: None and 0.0 are false
truthy(x) == x # None /\ x[1] # 0

\* (best_bid + best_ask) / 2.0
mid_price(best_bid, best_ask) == Some((best_bid[1] + best_ask[1]) \div 2)

\* {"price": None, "best_bid": None, "best_ask": None, "bids": [], "asks": []}
empty_book ==
    [price |-> None, best_bid |-> None, best_ask |-> None, bids |-> <<>>, asks |-> <<>>]

\* adapters/coinbase.py:24-41
coinbase(resp) ==
    LET bids     == sort_desc(resp.bids)
        asks     == sort_asc(resp.asks)
        best_bid == best(bids)
        best_ask == best(asks)
    IN  [price    |-> IF best_bid # None /\ best_ask # None THEN mid_price(best_bid, best_ask)
                      ELSE None,
         best_bid |-> best_bid, best_ask |-> best_ask, bids |-> bids, asks |-> asks]

\* adapters/binanceus.py:35-52
binanceus(resp) ==
    LET bids     == sort_desc(resp.bids)
        asks     == sort_asc(resp.asks)
        best_bid == best(bids)
        best_ask == best(asks)
    IN  [price    |-> IF truthy(best_bid) /\ truthy(best_ask) THEN mid_price(best_bid, best_ask)
                      ELSE None,
         best_bid |-> best_bid, best_ask |-> best_ask, bids |-> bids, asks |-> asks]

\* adapters/kraken.py:23-34
kraken(resp) == IF ~resp.ok THEN empty_book ELSE binanceus(resp)

\* adapters/bybit.py:24-45
bybit(resp) ==
    LET bids == sort_desc(resp.bids)
        asks == sort_asc(resp.asks)
    IN  IF ~resp.ok THEN empty_book
        ELSE IF bids = <<>> \/ asks = <<>> THEN empty_book
        ELSE [price |-> mid_price(best(bids), best(asks)), best_bid |-> best(bids),
              best_ask |-> best(asks), bids |-> bids, asks |-> asks]

\* adapters/cryptocom.py:32-61
cryptocom(resp) == bybit(resp)

Adapters == {"coinbase", "binanceus", "kraken", "bybit", "cryptocom"}

\* load_adapter (logger.py:27-32) : the fetch_orderbook of the named adapter
fetch_orderbook(ex_name, resp) ==
    CASE ex_name = "coinbase"  -> coinbase(resp)
      [] ex_name = "binanceus" -> binanceus(resp)
      [] ex_name = "kraken"    -> kraken(resp)
      [] ex_name = "bybit"     -> bybit(resp)
      [] ex_name = "cryptocom" -> cryptocom(resp)

\* What an adapter call leaves: the adapter, the upstream response, the book returned.
called(ex_name, resp) ==
    [adapter |-> ex_name, response |-> resp, ob |-> fetch_orderbook(ex_name, resp)]

\* One call of an adapter that returns a book (a call that raises returns
\* none); coinbase and binanceus raise on every response without a book.
CoinbaseFetch ==
    /\ fetched = None
    /\ \E resp \in Responses : resp.ok /\ fetched' = called("coinbase", resp)
    /\ UNCHANGED <<state, series, shared, blobJson, blobCsv, localCsv, loop, nOps, lastOp, fed,
                   resumed, finalized, dropped, feed, composer>>

BinanceusFetch ==
    /\ fetched = None
    /\ \E resp \in Responses : resp.ok /\ fetched' = called("binanceus", resp)
    /\ UNCHANGED <<state, series, shared, blobJson, blobCsv, localCsv, loop, nOps, lastOp, fed,
                   resumed, finalized, dropped, feed, composer>>

KrakenFetch ==
    /\ fetched = None
    /\ \E resp \in Responses : fetched' = called("kraken", resp)
    /\ UNCHANGED <<state, series, shared, blobJson, blobCsv, localCsv, loop, nOps, lastOp, fed,
                   resumed, finalized, dropped, feed, composer>>

BybitFetch ==
    /\ fetched = None
    /\ \E resp \in Responses : fetched' = called("bybit", resp)
    /\ UNCHANGED <<state, series, shared, blobJson, blobCsv, localCsv, loop, nOps, lastOp, fed,
                   resumed, finalized, dropped, feed, composer>>

CryptocomFetch ==
    /\ fetched = None
    /\ \E resp \in Responses : fetched' = called("cryptocom", resp)
    /\ UNCHANGED <<state, series, shared, blobJson, blobCsv, localCsv, loop, nOps, lastOp, fed,
                   resumed, finalized, dropped, feed, composer>>

NextAdapters == CoinbaseFetch \/ BinanceusFetch \/ KrakenFetch \/ BybitFetch \/ CryptocomFetch

SpecAdapters == Init /\ [][NextAdapters]_vars

\* --------------------------------------------------------- the poll loop
\* logger.py:130-134 : the (exchange, asset) pairs in the order the loops visit them
PairSeq == <<<<"coinbase", "ADA">>, <<"coinbase", "BTC">>, <<"kraken", "ADA">>>>

\* gcs.py:34-38 : data/{exchange}/{asset}-{day_iso}_{exchange}.csv
local_daily_csv_path(exchange, asset, day_iso) == <<"data", exchange, asset, day_iso>>

\* gcs.py:40-49 : the header row
Header == [header |-> TRUE]

\* logger.py:113 : the UTC day of a timestamp
day_of(ts_iso) == ts_iso \div SecondsPerDay

\* Order books the adapters of the two enabled exchanges return for an upstream
\* response with no levels, with bids only, with two levels a side, and with one.
EmptyBook == coinbase([ok |-> TRUE, bids |-> <<>>, asks |-> <<>>])
BidsOnlyBook == coinbase([ok |-> TRUE, bids |-> <<<<98, 1>>>>, asks |-> <<>>])
FullBook ==
    coinbase([ok |-> TRUE, bids |-> <<<<96, 2>>, <<98, 1>>>>,
              asks |-> <<<<102, 3>>, <<104, 4>>>>])

ThinBook == coinbase([ok |-> TRUE, bids |-> <<<<98, 2>>>>, asks |-> <<<<102, 3>>>>])

\* logger.py:122-127 : what fetch_one returns as (ob, err): a book, or an
\* exception's text (which may be empty)
Outcomes ==
    {[ob |-> Some(FullBook), err |-> None],
     [ob |-> Some(EmptyBook), err |-> None],
     [ob |-> Some(BidsOnlyBook), err |-> None],
     [ob |-> None, err |-> Some("ConnectError")],
     [ob |-> None, err |-> Some("")]}

\* The main three of them: a book, a book with an empty side, an exception.
LaterOutcomes ==
    {[ob |-> Some(FullBook), err |-> None],
     [ob |-> Some(BidsOnlyBook), err |-> None],
     [ob |-> None, err |-> Some("ConnectError")]}

\* The ways a fetch started in the cycle of wall-clock second c may end.
outcomes_at(c) == IF c < StartClock + AllOutcomesSeconds THEN Outcomes ELSE LaterOutcomes

\* logger.py:15 : sum(asks[i][0] - bids[i][0] for i in range(d))
RECURSIVE sum_spreads(_, _, _)
sum_spreads(bids, asks, d) ==
    IF d = 0 THEN 0 ELSE sum_spreads(bids, asks, d - 1) + (asks[d][1] - bids[d][1])

\* layered_avg_spread dividing by depth instead of by the levels taken.
layered_avg_spread_over_depth(bids, asks, depth) ==
    LET d == Min(depth, Min(Len(bids), Len(asks))) IN
    IF depth = 0 THEN None ELSE Some(Div(sum_spreads(bids, asks, d), depth))

\* logger.py:10-15
layered_avg_spread(bids, asks, depth) ==
    LET d == Min(depth, Min(Len(bids), Len(asks))) IN
    IF d = 0 THEN None ELSE Some(Div(sum_spreads(bids, asks, d), d))

\* logger.py:17-20 : x a fraction or None, mid a number or None
pct_of_mid(x, mid) ==
    IF x = None \/ mid = None THEN None
    ELSE IF mid[1] <= 0 THEN None
    ELSE Some(Div(x[1][1] * 100, x[1][2] * mid[1]))

\* logger.py:24 : sum(rows[i][1] for i in range(d))
RECURSIVE sum_sizes(_, _)
sum_sizes(rows, d) == IF d = 0 THEN 0 ELSE sum_sizes(rows, d - 1) + rows[d][2]

\* logger.py:22-24
sum_depth_sizes(rows, depth) ==
    LET d == Min(depth, Len(rows)) IN IF d > 0 THEN sum_sizes(rows, d) ELSE 0

\* logger.py:146-164 : the metrics of one order book
metrics(ob) ==
    [price    |-> ob.price,
     best_bid |-> ob.best_bid,
     best_ask |-> ob.best_ask,
     raw      |-> IF ob.best_ask # None /\ ob.best_bid # None
                  THEN Some(ob.best_ask[1] - ob.best_bid[1]) ELSE None,
     s5       |-> pct_of_mid(layered_avg_spread(ob.bids, ob.asks, 5), ob.price),
     s20      |-> pct_of_mid(layered_avg_spread(ob.bids, ob.asks, 20), ob.price),
     s50      |-> pct_of_mid(layered_avg_spread(ob.bids, ob.asks, 50), ob.price),
     s100     |-> pct_of_mid(layered_avg_spread(ob.bids, ob.asks, 100), ob.price),
     s5000    |-> pct_of_mid(layered_avg_spread(ob.bids, ob.asks, 5000), ob.price),
     bidv50   |-> Some(sum_depth_sizes(ob.bids, 50)),
     askv50   |-> Some(sum_depth_sizes(ob.asks, 50))]

\* logger.py:166-179 : the CSV row (the values; their 10-decimal text is not modelled)
csv_row(now_iso, ex_name, asset, m) ==
    [timestamp |-> now_iso, exchange |-> ex_name, asset |-> asset,
     price |-> m.price, best_bid |-> m.best_bid, best_ask |-> m.best_ask,
     spread_raw |-> m.raw, spread_L5_pct |-> m.s5, spread_L20_pct |-> m.s20,
     spread_L50_pct |-> m.s50, spread_L100_pct |-> m.s100,
     spread_L5000_pct |-> m.s5000, bid_volume_L50 |-> m.bidv50,
     ask_volume_L50 |-> m.askv50]

\* logger.py:184 : the positional arguments of the loop's minute.add(...) call
call_args(now_iso, ex_name, asset, m) ==
    <<ex_name, asset, now_iso, m.price, m.raw, m.s5, m.s20, m.s50, m.s100, m.s5000,
      m.bidv50, m.askv50>>

\* agg.py:85 : the parameters of add, after self
add_params ==
    <<"exchange", "asset", "ts_iso", "price", "spread_raw", "s5", "s20", "s50", "s100",
      "bidv50", "askv50">>

\* Python's call binding: the positional arguments must not outnumber the
\* parameters, and every parameter (none has a default) must get one.
binds(args) == Len(args) = Len(add_params)

\* The tick add receives from positional arguments that bind.
bound_tick(args) ==
    [price |-> args[4], spread_raw |-> args[5], s5 |-> args[6], s20 |-> args[7],
     s50 |-> args[8], s100 |-> args[9], bidv50 |-> args[10], askv50 |-> args[11]]

\* logger.py:107 : load_json_if_exists(bucket, key_json) or []
load_json_or_empty(key_json) ==
    IF key_json \in DOMAIN blobJson THEN blobJson[key_json] ELSE <<>>

\* logger.py:96-102 : the local files once pair (ex_name, asset) has its daily CSV:
\* the file kept if there, else the day's blob downloaded, else a header written
init_day_files(files, ex_name, asset, day_iso) ==
    LET lp      == local_daily_csv_path(ex_name, asset, day_iso)
        key_csv == daily_csv_key(ex_name, asset, day_iso)
    IN  IF lp \in DOMAIN files THEN files
        ELSE IF key_csv \in DOMAIN blobCsv THEN Put(files, lp, blobCsv[key_csv])
        ELSE Put(files, lp, <<Header>>)

\* logger.py:85-108 : init_day for the pairs i .. n; acc = [minute, localCsv,
\* local_paths, calls], calls being the replace_series calls made, in order
RECURSIVE init_day_from(_, _, _, _)
init_day_from(acc, day_iso, i, n) ==
    IF i > n THEN acc
    ELSE LET ex_name == PairSeq[i][1]
             asset   == PairSeq[i][2]
             lp      == local_daily_csv_path(ex_name, asset, day_iso)
             existing == load_json_or_empty(daily_json_key(ex_name, asset, day_iso))
         IN  init_day_from(
                [minute      |-> minute_replace(acc.minute, series_key(ex_name, asset),
                                                new_list(existing)),
                 localCsv    |-> init_day_files(acc.localCsv, ex_name, asset, day_iso),
                 local_paths |-> Put(acc.local_paths, <<ex_name, asset>>, lp),
                 calls       |-> Append(acc.calls, [key  |-> series_key(ex_name, asset),
                                                    rows |-> existing])],
                day_iso, i + 1, n)

\* logger.py:85-108
init_day(day_iso) ==
    init_day_from([minute |-> minute, localCsv |-> localCsv, local_paths |-> Empty,
                   calls |-> <<>>],
                  day_iso, 1, Len(PairSeq))

\* The keys replace_series was called for.
replaced_keys(calls) == {calls[j].key : j \in DOMAIN calls}

\* logger.py:110-119 : the top of a cycle, with init_day on the first cycle and on a
\* day rollover
LoopTop ==
    /\ loop.pc = "top"
    /\ loop.clock < StartClock + RunSeconds
    /\ LET now_iso == loop.clock
           day_iso == day_of(now_iso)
           roll    == loop.current_day # Some(day_iso)
           after   == IF roll THEN init_day(day_iso)
                      ELSE [minute |-> minute, localCsv |-> localCsv,
                            local_paths |-> loop.local_paths, calls |-> <<>>]
           replaced == replaced_keys(after.calls)
       IN  /\ state' = after.minute.state
           /\ series' = after.minute.series
           /\ shared' = after.minute.shared
           /\ localCsv' = after.localCsv
           /\ loop' = [loop EXCEPT !.pc = "fetch", !.now_iso = now_iso,
                                   !.current_day = Some(day_iso),
                                   !.local_paths = after.local_paths,
                                   !.tick = loop.clock]
           /\ lastOp' = [op |-> IF roll THEN "init_day" ELSE "top", day |-> day_iso,
                         calls |-> after.calls]
           /\ fed' = [k \in Keys |-> IF k \in replaced THEN <<>> ELSE fed[k]]
           /\ resumed' = [k \in Keys |-> IF k \in replaced THEN after.minute.series[k]
                                         ELSE resumed[k]]
           /\ dropped' = [k \in Keys |-> IF k \in replaced THEN k \in DOMAIN state
                                         ELSE dropped[k]]
           /\ feed' = [k \in Keys |-> IF k \in replaced THEN Replaced(feed[k], TRUE) ELSE feed[k]]
    /\ UNCHANGED <<blobJson, blobCsv, nOps, finalized>>
    /\ UNCHANGED <<fetched, composer>>

\* logger.py:85-108 : init_day in which a blob-store call raises at pair i, the
\* pairs before it done: in the look-up or the download of the day's CSV
\* (gcs.py:54-67, logger.py:99-100; the pair has no local file yet and gets
\* none), or in the load of the day's JSON (gcs.py:123-132, logger.py:107; the
\* pair has its local file and path, replace_series is not called for it);
\* nothing in main catches the exception
InitDayRaises ==
    /\ loop.pc = "top"
    /\ loop.clock < StartClock + RunSeconds
    /\ loop.current_day # Some(day_of(loop.clock))
    /\ \E i \in 1..Len(PairSeq), step \in {"csv", "json"} :
          LET now_iso == loop.clock
              day_iso == day_of(now_iso)
              ex_name == PairSeq[i][1]
              asset   == PairSeq[i][2]
              lp      == local_daily_csv_path(ex_name, asset, day_iso)
              before  == init_day_from([minute |-> minute, localCsv |-> localCsv,
                                        local_paths |-> Empty, calls |-> <<>>],
                                       day_iso, 1, i - 1)
              replaced == replaced_keys(before.calls)
          IN  /\ step = "csv" => lp \notin DOMAIN before.localCsv
              /\ state' = before.minute.state
              /\ series' = before.minute.series
              /\ shared' = before.minute.shared
              /\ localCsv' = IF step = "csv" THEN before.localCsv
                             ELSE init_day_files(before.localCsv, ex_name, asset, day_iso)
              /\ loop' = [loop EXCEPT
                             !.pc = "crashed", !.error = Some("UploadError"),
                             !.now_iso = now_iso, !.current_day = Some(day_iso),
                             !.local_paths =
                                IF step = "csv" THEN before.local_paths
                                ELSE Put(before.local_paths, <<ex_name, asset>>, lp)]
              /\ lastOp' = [op |-> "init_day_raised", day |-> day_iso,
                            calls |-> before.calls, exchange |-> ex_name,
                            asset |-> asset, step |-> step]
              /\ fed' = [k \in Keys |-> IF k \in replaced THEN <<>> ELSE fed[k]]
              /\ resumed' = [k \in Keys |-> IF k \in replaced THEN before.minute.series[k]
                                            ELSE resumed[k]]
              /\ dropped' = [k \in Keys |-> IF k \in replaced THEN k \in DOMAIN state
                                            ELSE dropped[k]]
              /\ feed' = [k \in Keys |-> IF k \in replaced THEN Replaced(feed[k], TRUE) ELSE feed[k]]
    /\ UNCHANGED <<blobJson, blobCsv, nOps, finalized>>
    /\ UNCHANGED <<fetched, composer>>

\* logger.py:129-136 : the tasks are created and gathered: every fetch is in flight
GatherStart ==
    /\ loop.pc = "fetch"
    /\ loop' = [loop EXCEPT !.pc = "gather", !.inflight = 1..Len(PairSeq), !.done = Empty]
    /\ lastOp' = [op |-> "gather"]
    /\ UNCHANGED <<state, series, shared, blobJson, blobCsv, localCsv, nOps, fed, resumed,
                   finalized, dropped, feed, fetched, composer>>

\* logger.py:122-127 : one fetch_one finishes, with a book or with an exception's text
FetchDone ==
    /\ loop.pc = "gather"
    /\ \E i \in loop.inflight, out \in outcomes_at(loop.clock) :
          /\ loop' = [loop EXCEPT !.inflight = @ \ {i}, !.done = Put(@, i, out)]
          /\ lastOp' = [op |-> "fetch_done", idx |-> i]
    /\ UNCHANGED <<state, series, shared, blobJson, blobCsv, localCsv, nOps, fed, resumed,
                   finalized, dropped, feed, fetched, composer>>

\* A wait that returns as soon as one fetch has finished.
first_done(inflight) == inflight # 1..Len(PairSeq)

\* logger.py:136 : asyncio.gather returns when every task has finished
all_done(inflight) == inflight = {}

\* The results of the finished fetches, in task order.
RECURSIVE gathered(_, _)
gathered(done, n) ==
    IF n = 0 THEN <<>>
    ELSE IF n \in DOMAIN done
         THEN Append(gathered(done, n - 1),
                     [ex_name |-> PairSeq[n][1], asset |-> PairSeq[n][2],
                      ob |-> done[n].ob, err |-> done[n].err])
         ELSE gathered(done, n - 1)

\* logger.py:136 : results = await asyncio.gather(*tasks)
GatherReturn ==
    /\ loop.pc = "gather"
    /\ all_done(loop.inflight)
    /\ \E d \in {0, fetch_timeout} :
          loop' = [loop EXCEPT !.pc = "process", !.idx = 1, !.clock = @ + d,
                               !.results = gathered(loop.done, Len(PairSeq)),
                               !.done = Empty]
    /\ lastOp' = [op |-> "fetch"]
    /\ UNCHANGED <<state, series, shared, blobJson, blobCsv, localCsv, nOps, fed, resumed,
                   finalized, dropped, feed, fetched, composer>>

\* The skip test without the empty-book check of logger.py:143-144.
skipped_without_empty_check(res) ==
    IF res.err # None /\ res.err[1] # "" THEN TRUE ELSE res.ob = None

\* logger.py:140-144 : "if err or not ob" and the empty-book check
skipped(res) ==
    IF res.err # None /\ res.err[1] # "" THEN TRUE
    ELSE IF res.ob = None THEN TRUE
    ELSE res.ob[1].bids = <<>> \/ res.ob[1].asks = <<>>

\* logger.py:139-144 : a result that is skipped
ProcessSkip ==
    /\ loop.pc = "process"
    /\ loop.idx <= Len(loop.results)
    /\ skipped(loop.results[loop.idx])
    /\ loop' = [loop EXCEPT !.idx = @ + 1]
    /\ lastOp' = [op |-> "skip"]
    /\ UNCHANGED <<state, series, shared, blobJson, blobCsv, localCsv, nOps, fed, resumed,
                   finalized, dropped, feed, fetched, composer>>

\* logger.py:146-184 : a result that is processed: its row is appended to the
\* local CSV, then minute.add is called; a call whose arguments do not bind
\* raises TypeError, which nothing in main catches
ProcessRow ==
    /\ loop.pc = "process"
    /\ loop.idx <= Len(loop.results)
    /\ ~skipped(loop.results[loop.idx])
    /\ LET res  == loop.results[loop.idx]
           m    == metrics(res.ob[1])
           lp   == loop.local_paths[<<res.ex_name, res.asset>>]
           args == call_args(loop.now_iso, res.ex_name, res.asset, m)
       IN  /\ localCsv' = Put(localCsv, lp,
                              Append(localCsv[lp],
                                     csv_row(loop.now_iso, res.ex_name, res.asset, m)))
           /\ IF binds(args)
              THEN /\ AddCall(args[1], args[2], args[3], bound_tick(args))
                   /\ loop' = [loop EXCEPT !.idx = @ + 1]
                   /\ UNCHANGED blobCsv
              ELSE /\ loop' = [loop EXCEPT !.pc = "crashed", !.error = Some("TypeError")]
                   /\ lastOp' = [op |-> "add_raised", exchange |-> res.ex_name,
                                 key |-> res.asset, ts |-> loop.now_iso]
                   /\ UNCHANGED <<state, series, shared, blobJson, blobCsv, nOps, fed, resumed,
                                  finalized, dropped, feed, fetched, composer>>

\* logger.py:188-194 : the uploads from pair i on; acc = [blobCsv, blobJson]
RECURSIVE upload_from(_, _, _)
upload_from(acc, day_iso, i) ==
    IF i > Len(PairSeq) THEN acc
    ELSE LET ex_name == PairSeq[i][1]
             asset   == PairSeq[i][2]
             lp      == loop.local_paths[<<ex_name, asset>>]
         IN  upload_from(
                [blobCsv  |-> Put(acc.blobCsv, daily_csv_key(ex_name, asset, day_iso),
                                  localCsv[lp]),
                 blobJson |-> Put(acc.blobJson, daily_json_key(ex_name, asset, day_iso),
                                  upload_rows(ex_name, asset))],
                day_iso, i + 1)

\* logger.py:186-195 : the periodic upload, when due
Upload ==
    /\ loop.pc = "process"
    /\ loop.idx > Len(loop.results)
    /\ LET due == loop.clock - loop.last_upload >= upload_interval
           up  == upload_from([blobCsv |-> blobCsv, blobJson |-> blobJson],
                              day_of(loop.now_iso), 1)
       IN  /\ blobCsv' = IF due THEN up.blobCsv ELSE blobCsv
           /\ blobJson' = IF due THEN up.blobJson ELSE blobJson
           /\ loop' = [loop EXCEPT !.pc = "sleep",
                                   !.last_upload = IF due THEN loop.clock ELSE @]
           /\ lastOp' = [op |-> IF due THEN "uploads" ELSE "no_upload"]
    /\ UNCHANGED <<state, series, shared, localCsv, nOps, fed, resumed, finalized, dropped, feed>>
    /\ UNCHANGED <<fetched, composer>>

\* logger.py:188-194 : the store after the uploads of the first n pairs
RECURSIVE upload_first(_, _)
upload_first(n, day_iso) ==
    IF n = 0 THEN [blobCsv |-> blobCsv, blobJson |-> blobJson]
    ELSE LET acc     == upload_first(n - 1, day_iso)
             ex_name == PairSeq[n][1]
             asset   == PairSeq[n][2]
         IN  [blobCsv  |-> Put(acc.blobCsv, daily_csv_key(ex_name, asset, day_iso),
                               localCsv[loop.local_paths[<<ex_name, asset>>]]),
              blobJson |-> Put(acc.blobJson, daily_json_key(ex_name, asset, day_iso),
                               upload_rows(ex_name, asset))]

\* logger.py:186-194 : a due upload in which a blob-store call raises, at pair i,
\* in upload_file (gcs.py:95-111) or in upload_json (gcs.py:113-121), before
\* the blob is written or after it (make_public, or the temp blob's delete);
\* nothing in main catches the exception
UploadRaises ==
    /\ loop.pc = "process"
    /\ loop.idx > Len(loop.results)
    /\ loop.clock - loop.last_upload >= upload_interval
    /\ \E i \in 1..Len(PairSeq), step \in {"csv", "json"}, written \in BOOLEAN :
          LET day_iso == day_of(loop.now_iso)
              before  == upload_first(i - 1, day_iso)
              ex_name == PairSeq[i][1]
              asset   == PairSeq[i][2]
              csv     == Put(before.blobCsv, daily_csv_key(ex_name, asset, day_iso),
                             localCsv[loop.local_paths[<<ex_name, asset>>]])
              json    == Put(before.blobJson, daily_json_key(ex_name, asset, day_iso),
                             upload_rows(ex_name, asset))
          IN  /\ blobCsv' = IF step = "json" \/ written THEN csv ELSE before.blobCsv
              /\ blobJson' = IF step = "json" /\ written THEN json ELSE before.blobJson
              /\ lastOp' = [op |-> "upload_raised", exchange |-> ex_name,
                            asset |-> asset, step |-> step]
    /\ loop' = [loop EXCEPT !.pc = "crashed", !.error = Some("UploadError")]
    /\ UNCHANGED <<state, series, shared, localCsv, nOps, fed, resumed, finalized, dropped, feed>>
    /\ UNCHANGED <<fetched, composer>>

\* logger.py:197-198 : sleep for what is left of the row interval
Sleep ==
    /\ loop.pc = "sleep"
    /\ loop' = [loop EXCEPT !.pc = "top",
                            !.clock = @ + Max(0, row_interval - (loop.clock - loop.tick))]
    /\ lastOp' = [op |-> "sleep"]
    /\ UNCHANGED <<state, series, shared, blobJson, blobCsv, localCsv, nOps, fed, resumed,
                   finalized, dropped, feed, fetched, composer>>

\* A daily JSON left in the bucket by an earlier run of the process.
EarlierJson ==
    Put(Empty, daily_json_key("coinbase", "ADA", day_of(StartClock)),
        <<ResumeRecord("coinbase", "ADA", StartClock - SecondsPerMinute)>>)

\* logger.py:35-83 : the process starts; the bucket is empty or holds an earlier run's JSON
InitLoop ==
    /\ state = Empty
    /\ series = Empty
    /\ shared = Empty
    /\ blobJson \in {Empty, EarlierJson}
    /\ blobCsv = Empty
    /\ localCsv = Empty
    /\ loop = LoopStart(StartClock)
    /\ nOps = 0
    /\ lastOp = [op |-> "init"]
    /\ fed = [k \in Keys |-> <<>>]
    /\ resumed = [k \in Keys |-> <<>>]
    /\ finalized = {}
    /\ dropped = [k \in Keys |-> FALSE]
    /\ feed = [k \in Keys |-> NoFeed]
    /\ fetched = None
    /\ composer = ComposerOff

NextLoop ==
    \/ LoopTop \/ InitDayRaises \/ GatherStart \/ FetchDone \/ GatherReturn
    \/ ProcessSkip \/ ProcessRow \/ Upload \/ UploadRaises \/ Sleep

SpecLoop == InitLoop /\ [][NextLoop]_vars

\* ------------------------------------ the poll loop, over a short run
\* logger.py:110-119 : the top of a cycle, within the short run
GatherTop == loop.clock < StartClock + GatherSeconds /\ LoopTop

\* logger.py:85-108 : init_day ended by a blob-store exception, within that run
GatherInitDayRaises == loop.clock < StartClock + GatherSeconds /\ InitDayRaises

NextGather ==
    \/ GatherTop \/ GatherInitDayRaises \/ GatherStart \/ FetchDone \/ GatherReturn
    \/ ProcessSkip \/ ProcessRow \/ Upload \/ UploadRaises \/ Sleep

SpecGather == InitLoop /\ [][NextGather]_vars

\* ---------------------------------------------------------- metric math
\* logger.py:151-155 : the depths asked for, and smaller ones that cut a short book
Depths == {0, 1, 2, 5, 5000}

\* logger.py:10-15 : one call of layered_avg_spread on the sides of a book
LayeredAvgSpread ==
    /\ lastOp.op = "init"
    /\ \E bids \in Sides(MaxLevels), asks \in Sides(MaxLevels), depth \in Depths :
          lastOp' = [op |-> "layered_avg_spread", bids |-> sort_desc(bids),
                     asks |-> sort_asc(asks), depth |-> depth,
                     result |-> layered_avg_spread(sort_desc(bids), sort_asc(asks), depth)]
    /\ UNCHANGED <<state, series, shared, blobJson, blobCsv, localCsv, loop, nOps, fed, resumed,
                   finalized, dropped, feed, fetched, composer>>

NextMath == LayeredAvgSpread

SpecMath == Init /\ [][NextMath]_vars

\* ------------------------------------------------------------- composer
\* composer.py:18-19 : every enabled exchange with every asset of the config
ComposerPairs == <<<<"coinbase", "ADA">>, <<"coinbase", "BTC">>,
                   <<"kraken", "ADA">>, <<"kraken", "BTC">>>>

\* gcs.py:40-49 with the column "time" of gcs.py:160 : the header row of a CSV
\* that compose_daily_csv has republished
TimedHeader == [header |-> TRUE, time |-> TRUE]

\* gcs.py:152-154 : the data rows of a CSV (read_csv takes the first row as header)
_download_csv(rows) == SubSeq(rows, 2, Len(rows))

\* The orders in which n rows can be put.
Orders(n) == {q \in [1..n -> 1..n] : \A i, j \in 1..n : i # j => q[i] # q[j]}

\* gcs.py:161 : df.sort_values("time") : the rows by ascending time; the default
\* sort is not stable, so rows of equal time come out in either order
sort_values(rows) ==
    {[i \in 1..Len(rows) |-> rows[q[i]]] :
        q \in {o \in Orders(Len(rows)) :
                  \A i \in 1..(Len(rows) - 1) : rows[o[i]].time <= rows[o[i + 1]].time}}

\* gcs.py:156-161 : the frames _normalize_time can return for a CSV: the column
\* "time" is (re)made from "time" if the CSV has that column, else from
\* "timestamp"; a row whose cell does not parse (here: has none) gets NaT and
\* is dropped; the rest is sorted by time
_normalize_time(csv) ==
    LET tcol     == IF "time" \in DOMAIN csv[1] THEN "time" ELSE "timestamp"
        rows     == _download_csv(csv)
        readable == SelectSeq(rows, LAMBDA r : tcol \in DOMAIN r)
        timed    == [i \in 1..Len(readable) |->
                       [f \in (DOMAIN readable[i]) \cup {"time"} |->
                           IF f = "time" THEN readable[i][tcol] ELSE readable[i][f]]]
    IN  sort_values(timed)

\* gcs.py:206,222 : df_day.to_csv(index=False) : the frame's columns, "time" among
\* them, as header, then its rows
to_csv(df_day) == <<TimedHeader>> \o df_day

\* gcs.py:163-173 : _daily_json_bytes: "time" is the first of the preferred
\* columns and the frame always has it, so every record handed to json.dumps
\* holds a pandas Timestamp, which json.dumps cannot serialise: the call
\* raises TypeError on a frame with a row (it is not made for one without)
_daily_json_bytes(df_day) ==
    IF Len(df_day) > 0 THEN [error |-> Some("TypeError"), data |-> None]
    ELSE [error |-> None, data |-> Some(<<>>)]

\* gcs.py:175-246 : the stores compose_daily_csv can leave, on a store without
\* shards; st = [blobCsv, blobJson]. Without the day's single CSV nothing is
\* published. With it, the CSV is republished from the normalised frame (twice,
\* with the same bytes); then, for a frame with rows, _daily_json_bytes raises
\* before the JSON upload, and for one without rows the JSON is skipped: the
\* day's JSON is never written. A blob-store call that raises before the CSV
\* is written leaves the store as it was.
compose_daily_csv(st, exchange, asset, day_iso) ==
    LET single_key == daily_csv_key(exchange, asset, day_iso) IN
    IF single_key \notin DOMAIN st.blobCsv THEN {st}
    ELSE {st} \cup
         {[blobCsv  |-> Put(st.blobCsv, single_key, to_csv(df_day)),
           blobJson |-> IF Len(df_day) > 0 /\ _daily_json_bytes(df_day).error = None
                        THEN Put(st.blobJson, daily_json_key(exchange, asset, day_iso),
                                 _daily_json_bytes(df_day).data[1])
                        ELSE st.blobJson] :
             df_day \in _normalize_time(st.blobCsv[single_key])}

\* composer.py:5-12 : the stores compose_day can leave, from pair i on; an
\* exception of compose_daily_csv is caught and the next pair is taken
RECURSIVE compose_day_from(_, _, _)
compose_day_from(st, day_iso, i) ==
    IF i > Len(ComposerPairs) THEN {st}
    ELSE UNION {compose_day_from(after, day_iso, i + 1) :
                   after \in compose_daily_csv(st, ComposerPairs[i][1], ComposerPairs[i][2],
                                                day_iso)}

\* composer.py:5-12
compose_day(day_iso) ==
    compose_day_from([blobCsv |-> blobCsv, blobJson |-> blobJson], day_iso, 1)

\* composer.py:28 : now.hour == 0 and now.minute >= 3
in_compose_window(now) ==
    LET second_of_day == now % SecondsPerDay IN
    /\ second_of_day \div SecondsPerHour = 0
    /\ (second_of_day % SecondsPerHour) \div SecondsPerMinute >= compose_minute

\* The test of composer.py:30 replaced by one that always passes.
not_done_ever(y_iso, last_day_done) == TRUE

\* composer.py:30 : y_iso != last_day_done
not_done(y_iso, last_day_done) == last_day_done # Some(y_iso)

\* composer.py:26-32 : a wake-up that composes yesterday; the call takes from no
\* time to ComposeSeconds
ComposerCompose ==
    /\ composer.pc = "wake"
    /\ in_compose_window(composer.now)
    /\ LET y_iso == day_of(composer.now) - 1 IN
          /\ not_done(y_iso, composer.last_day_done)
          /\ \E after \in compose_day(y_iso) :
                /\ blobCsv' = after.blobCsv
                /\ blobJson' = after.blobJson
          /\ \E d \in {0, ComposeSeconds} :
                composer' = [composer EXCEPT
                               !.pc = "sleep",
                               !.now = @ + d,
                               !.last_day_done = Some(y_iso),
                               !.composed = Append(@, [day |-> y_iso, at |-> composer.now])]
    /\ UNCHANGED <<state, series, shared, localCsv, loop, nOps, lastOp, fed, resumed, finalized,
                   dropped, feed, fetched>>

\* composer.py:26-30 : a wake-up outside the window, or with yesterday done
ComposerPass ==
    /\ composer.pc = "wake"
    /\ ~ ( /\ in_compose_window(composer.now)
           /\ not_done(day_of(composer.now) - 1, composer.last_day_done) )
    /\ composer' = [composer EXCEPT !.pc = "sleep"]
    /\ UNCHANGED <<state, series, shared, blobJson, blobCsv, localCsv, loop, nOps, lastOp, fed,
                   resumed, finalized, dropped, feed, fetched>>

\* The second after which a run of the composer is no longer followed.
ComposerEnd == ComposerDays * SecondsPerDay + SecondsPerHour + composer_sleep

\* composer.py:33 : time.sleep(120), then the next reading of the clock
ComposerSleep ==
    /\ composer.pc = "sleep"
    /\ composer.now < ComposerEnd
    /\ composer' = [composer EXCEPT !.pc = "wake", !.now = @ + composer_sleep]
    /\ UNCHANGED <<state, series, shared, blobJson, blobCsv, localCsv, loop, nOps, lastOp, fed,
                   resumed, finalized, dropped, feed, fetched>>

\* Seconds of day 0 at which run_loop may be started: before, at the edges of,
\* inside and after the window of day 0, and late in the day.
ComposerStarts == {0, 61, 179, 180, 200, 3480, 3599, 3600, 86250, 86399}

\* A daily CSV of day 0 in the bucket: the header and rows stamped out of order.
Day0Csv ==
    Put(Empty, daily_csv_key("coinbase", "ADA", 0),
        <<Header, csv_row(42, "coinbase", "ADA", metrics(FullBook)),
                  csv_row(7, "coinbase", "ADA", metrics(FullBook))>>)

\* A row whose timestamp cell does not parse.
unstamped(row) == [f \in (DOMAIN row) \ {"timestamp"} |-> row[f]]

\* A daily CSV of day 0 with two rows of one timestamp and a row without a
\* readable one.
Day0CsvTied ==
    Put(Empty, daily_csv_key("coinbase", "ADA", 0),
        <<Header, csv_row(7, "coinbase", "ADA", metrics(FullBook)),
                  unstamped(csv_row(9, "coinbase", "ADA", metrics(FullBook))),
                  csv_row(7, "coinbase", "ADA", metrics(ThinBook))>>)

\* composer.py:14-24 : run_loop starts, over an empty bucket or one with a CSV of day 0
InitComposer ==
    /\ state = Empty
    /\ series = Empty
    /\ shared = Empty
    /\ blobJson = Empty
    /\ blobCsv \in {Empty, Day0Csv, Day0CsvTied}
    /\ localCsv = Empty
    /\ loop = [LoopStart(0) EXCEPT !.pc = "off"]
    /\ nOps = 0
    /\ lastOp = [op |-> "init"]
    /\ fed = [k \in Keys |-> <<>>]
    /\ resumed = [k \in Keys |-> <<>>]
    /\ finalized = {}
    /\ dropped = [k \in Keys |-> FALSE]
    /\ feed = [k \in Keys |-> NoFeed]
    /\ fetched = None
    /\ \E t \in ComposerStarts :
          composer = [pc |-> "wake", now |-> t, start |-> t, last_day_done |-> None,
                      composed |-> <<>>]

NextComposer == ComposerCompose \/ ComposerPass \/ ComposerSleep

SpecComposer == InitComposer /\ [][NextComposer]_vars

\* ------------------------------------------------------------------ claims
\* The sums of an accumulator, in the order of the metric columns.
SumsOf(st) ==
    <<st.price_sum, st.spread_raw_sum, st.s5_sum, st.s20_sum, st.s50_sum,
      st.s100_sum, st.bidv50_sum, st.askv50_sum>>

\* The values of a tick, null read as 0, in the same order.
ValuesOf(tk) ==
    <<v(tk.price), v(tk.spread_raw), v(tk.s5), v(tk.s20), v(tk.s50),
      v(tk.s100), v(tk.bidv50), v(tk.askv50)>>

\* The averages of a record, in the same order.
AvgsOf(r) ==
    <<r.price_avg, r.spread_raw_avg, r.spread_L5_pct_avg, r.spread_L20_pct_avg,
      r.spread_L50_pct_avg, r.spread_L100_pct_avg, r.bid_volume_L50_avg,
      r.ask_volume_L50_avg>>

\* C1: a tick of one exchange changes neither the accumulator (sums, n) nor the
\* series held for another exchange: an add for exchange X leaves every
\* accumulator that belongs to an exchange other than X, and the series stored
\* with it, as they were.
C1_ExchangesIsolated ==
    [][lastOp'.op = "add" =>
         \A k \in DOMAIN state :
            state[k].exchange # lastOp'.exchange =>
               /\ k \in DOMAIN state'
               /\ state'[k] = state[k]
               /\ series_get(series', k) = series_get(series, k)]_vars

\* C2: after an upload step for a pair, every record that add has finalized for
\* that pair is among the rows written to the pair's daily JSON key.
C2_UploadHoldsFinalized ==
    lastOp.op = "upload" =>
       \A r \in finalized :
          (r.exchange = lastOp.exchange /\ r.asset = lastOp.asset) =>
             r \in Range(blobJson[daily_json_key(lastOp.exchange, lastOp.asset, lastOp.day)])

\* The UTC minute (counted from the start of the first day) a timestamp falls in.
MinuteOf(ts) == ts \div SecondsPerMinute

\* The bucket timestamp ('...:MM:00Z') of a minute.
BucketOf(m) == m * SecondsPerMinute

\* avg, a fraction <<num, den>>, is the quotient total / count.
IsQuotient(avg, total, count) == avg[2] > 0 /\ avg[1] * count = total * avg[2]

\* The ticks of a log that fall in minute m, in arrival order.
TicksIn(log, m) == SelectSeq(log, LAMBDA x : MinuteOf(x.ts) = m)

\* Non-decreasing timestamps.
Ordered(log) == \A i \in 1..(Len(log) - 1) : log[i].ts <= log[i + 1].ts

\* The sum over a log of metric column j, a null counted as 0.
RECURSIVE SumColumn(_, _)
SumColumn(log, j) ==
    IF log = <<>> THEN 0 ELSE ValuesOf(Head(log).tick)[j] + SumColumn(Tail(log), j)

\* The sum of the non-null prices of a log.
RECURSIVE SumNonNullPrices(_)
SumNonNullPrices(log) ==
    IF log = <<>> THEN 0
    ELSE (IF Head(log).tick.price = None THEN 0 ELSE Head(log).tick.price[1])
         + SumNonNullPrices(Tail(log))

\* The number of minute changes in a log: the records add has appended for it.
Rollovers(log) ==
    Cardinality({i \in 1..(Len(log) - 1) : MinuteOf(log[i].ts) # MinuteOf(log[i + 1].ts)})

\* The records add has appended to key k since k was last replaced, as far as
\* the cap has kept them.
Appended(k) ==
    LET rows == series_get(series, k) IN
    LastK(rows, Min(Rollovers(fed[k]), Min(SeriesCap, Len(rows))))

\* C5: an add for a key with an open accumulator, in the accumulator's minute,
\* increments n by one and leaves the series alone; in another minute it
\* appends exactly one record (then keeps the last 1440), whose t is the old
\* accumulator's bucket, and leaves an accumulator for the new bucket with
\* n = 1 and this tick's values (null as 0) as sums.
C5_AddOnOpenAccumulator ==
    [][(lastOp'.op = "add" /\ lastOp'.key \in DOMAIN state) =>
          LET k   == lastOp'.key
              old == series_get(series, k)
              new == series_get(series', k)
          IN  /\ k \in DOMAIN state'
              /\ IF BucketOf(MinuteOf(lastOp'.ts)) = state[k].key
                 THEN /\ state'[k].n = state[k].n + 1
                      /\ state'[k].key = state[k].key
                      /\ new = old
                 ELSE /\ Len(new) >= 1
                      /\ new = LastK(Append(old, new[Len(new)]), SeriesCap)
                      /\ new[Len(new)].t = state[k].key
                      /\ state'[k].n = 1
                      /\ state'[k].key = BucketOf(MinuteOf(lastOp'.ts))
                      /\ SumsOf(state'[k]) = ValuesOf(lastOp'.tick)]_vars

\* C5 witness: the last call was an add that rolled a key's open accumulator
\* over into a record and opened a new accumulator from a tick with values.
C5_Witness ==
    /\ lastOp.op = "add"
    /\ Len(fed[lastOp.key]) >= 2
    /\ LET log == fed[lastOp.key] IN
          MinuteOf(log[Len(log)].ts) # MinuteOf(log[Len(log) - 1].ts)
    /\ Len(series_get(series, lastOp.key)) >= 1
    /\ lastOp.tick = TickB
    /\ state[lastOp.key].n = 1

\* C6: with a key's ticks arriving in non-decreasing order, the record add
\* finalizes for a minute has price_avg = (sum of the non-null prices of the
\* minute's ticks) / (number of all the minute's ticks, null-priced ones
\* included).
C6_PriceAvgCountsNulls ==
    [][( /\ lastOp'.op = "add"
         /\ lastOp'.key \in DOMAIN state
         /\ state[lastOp'.key].key # BucketOf(MinuteOf(lastOp'.ts))
         /\ Ordered(fed[lastOp'.key]) )
       => LET k    == lastOp'.key
              rows == series'[k]
              r    == rows[Len(rows)]
              tks  == TicksIn(fed[k], MinuteOf(r.t))
          IN  /\ r.t = state[k].key
              /\ Len(tks) >= 1
              /\ IsQuotient(r.price_avg, SumNonNullPrices(tks), Len(tks))]_vars

\* C6 witness: a finalized record of a minute whose first tick had a null price
\* and whose later tick had a price.
C6_Witness ==
    \E k \in Keys :
       /\ Ordered(fed[k])
       /\ Len(fed[k]) = 3
       /\ fed[k][1].tick.price = None
       /\ fed[k][2].tick.price # None
       /\ MinuteOf(fed[k][1].ts) = MinuteOf(fed[k][2].ts)
       /\ MinuteOf(fed[k][3].ts) > MinuteOf(fed[k][2].ts)
       /\ Len(Appended(k)) = 1

\* C7: for a key with an empty series, c >= 1 ticks inside minute M followed
\* by one tick inside minute M+1 leave exactly one record, for M, each average
\* being the sum over the c ticks divided by c, and an open accumulator for
\* M+1 with n = 1.
C7_OneRecordAfterMinuteBoundary ==
    [][\A k \in Keys :
          LET log == fed[k]
              c   == Len(log)
          IN  ( /\ lastOp'.op = "add"
                /\ lastOp'.key = k
                /\ series_get(series, k) = <<>>
                /\ c >= 1
                /\ \A i \in 1..c : MinuteOf(log[i].ts) = MinuteOf(log[1].ts)
                /\ MinuteOf(lastOp'.ts) = MinuteOf(log[1].ts) + 1 )
              => /\ Len(series'[k]) = 1
                 /\ series'[k][1].t = BucketOf(MinuteOf(log[1].ts))
                 /\ \A j \in 1..8 :
                       IsQuotient(AvgsOf(series'[k][1])[j], SumColumn(log, j), c)
                 /\ k \in DOMAIN state'
                 /\ state'[k].n = 1
                 /\ state'[k].key = BucketOf(MinuteOf(log[1].ts) + 1)]_vars

\* C7 witness: two ticks with different values in one minute, then one tick in
\* the next minute.
C7_Witness ==
    \E k \in Keys :
       /\ resumed[k] = <<>>
       /\ Len(fed[k]) = 3
       /\ MinuteOf(fed[k][1].ts) = MinuteOf(fed[k][2].ts)
       /\ fed[k][1].ts # fed[k][2].ts
       /\ fed[k][1].tick = TickA
       /\ fed[k][2].tick = TickB
       /\ MinuteOf(fed[k][3].ts) = MinuteOf(fed[k][1].ts) + 1
       /\ Len(series_get(series, k)) = 1

\* C8: replace_series(key, rows) leaves the key with no accumulator and with
\* exactly rows as its series; an add for the key made next leaves an
\* accumulator with n = 1 and only that tick's values as sums, and the series
\* still equal to rows.
C8_ReplaceThenAdd ==
    [][/\ lastOp'.op = "replace_series" =>
             /\ lastOp'.key \notin DOMAIN state'
             /\ series'[lastOp'.key] = lastOp'.rows
       /\ (lastOp.op = "replace_series" /\ lastOp'.op \in {"add", "add_raised"}) =>
             (lastOp'.key = lastOp.key =>
                LET k == lastOp.key IN
                /\ lastOp'.op = "add"
                /\ k \in DOMAIN state'
                /\ state'[k].n = 1
                /\ state'[k].key = BucketOf(MinuteOf(lastOp'.ts))
                /\ SumsOf(state'[k]) = ValuesOf(lastOp'.tick)
                /\ series'[k] = lastOp.rows)]_vars

\* C8 witness: a key with an open accumulator was replaced by a non-empty
\* series and then given one tick.
C8_Witness ==
    \E k \in Keys :
       /\ dropped[k]
       /\ resumed[k] # <<>>
       /\ Len(fed[k]) = 1
       /\ lastOp.op = "add"
       /\ lastOp.key = k

\* C4: no series ever holds more than 1440 records, and an add that finalizes
\* a record onto a series of 1440 records leaves the previous last 1439
\* records, in order, followed by the new record.
C4_SeriesNeverExceedsCap ==
    [][/\ \A k \in DOMAIN series' : Len(series'[k]) <= SeriesCap
       /\ ( /\ lastOp'.op = "add"
            /\ lastOp'.key \in DOMAIN state
            /\ state[lastOp'.key].key # BucketOf(MinuteOf(lastOp'.ts))
            /\ Len(series_get(series, lastOp'.key)) = SeriesCap )
          => LET old == series_get(series, lastOp'.key)
                 new == series_get(series', lastOp'.key)
             IN  /\ Len(new) = SeriesCap
                 /\ SubSeq(new, 1, SeriesCap - 1) = SubSeq(old, 2, SeriesCap)
                 /\ new[SeriesCap].t = state[lastOp'.key].key]_vars

\* The minutes of key k completed since k was last replaced: those a tick fell
\* in and a tick of a later minute followed.
Completed(k) ==
    IF feed[k].last = None THEN {}
    ELSE feed[k].minutes \ {MinuteOf(feed[k].last[1])}

\* The minutes of key k completed since the Averager was created.
CompletedEver(k) ==
    IF feed[k].ever.last = None THEN {}
    ELSE feed[k].ever.minutes \ {MinuteOf(feed[k].ever.last[1])}

StrictlyIncreasingT(rows) == \A i \in 1..(Len(rows) - 1) : rows[i].t < rows[i + 1].t

\* C9 as claimed: with a key's ticks in non-decreasing order, the t values of
\* its series are strictly increasing and every completed minute has exactly
\* one record.
C9_OneRecordPerCompletedMinute ==
    \A k \in Keys :
       feed[k].ever.ordered =>
          LET rows == series_get(series, k) IN
          /\ StrictlyIncreasingT(rows)
          /\ {BucketOf(m) : m \in CompletedEver(k)} \subseteq {rows[i].t : i \in DOMAIN rows}

\* C9 as amended: for a key whose series list no other key has held since the
\* key was last replaced, and whose ticks since then came in non-decreasing
\* order, the records appended since then have strictly increasing t and are,
\* one each, those of the min(c, 1440) most recent of the c minutes completed
\* since then; the series holds nothing else but what is left of the replaced
\* rows.
C9_RecentCompletedMinutes ==
    \A k \in Keys :
       (feed[k].ordered /\ feed[k].alone) =>
          LET rows == series_get(series, k)
              done == Completed(k)
              c    == Cardinality(done)
              kept == Min(c, SeriesCap)
              app  == LastK(rows, kept)
          IN  /\ Len(rows) = IF c = 0 THEN Len(resumed[k])
                                      ELSE Min(SeriesCap, Len(resumed[k]) + c)
              /\ Len(app) = kept
              /\ StrictlyIncreasingT(app)
              /\ kept > 0 =>
                    {app[i].t : i \in DOMAIN app}
                       = {BucketOf(m) : m \in {x \in done : BucketOf(x) >= app[1].t}}
              /\ SubSeq(rows, 1, Len(rows) - kept)
                    = LastK(resumed[k], Len(rows) - kept)

\* C9 witness: a key was replaced, while it had an open accumulator, by a
\* series with a record; since then 1440 or more of its minutes were completed,
\* in order, and its series is full.
C9_Witness ==
    \E k \in Keys :
       /\ feed[k].ordered
       /\ feed[k].alone
       /\ dropped[k]
       /\ resumed[k] # <<>>
       /\ Cardinality(Completed(k)) >= SeriesCap
       /\ Len(series_get(series, k)) = SeriesCap
       /\ state[k].n = 2

\* C3: no call of add made by the poll loop raises an error: the loop never
\* stops on an error raised by its minute.add(...) call.
C3_AddRaisesNoError == loop.error # Some("TypeError")

\* Whether the local CSV of result i's pair has a row stamped with this cycle's now_iso.
HasRow(i) ==
    LET res == loop.results[i]
        lp  == loop.local_paths[<<res.ex_name, res.asset>>]
    IN  \E j \in 1..Len(localCsv[lp]) :
            /\ localCsv[lp][j] # Header
            /\ localCsv[lp][j].timestamp = loop.now_iso

\* C10: in a cycle in which some pair's fetch failed, the loop is not stopped
\* while it processes the results,
\* a pair whose fetch failed gets no CSV row, and a pair whose fetch returned a
\* non-empty book has got its row once the loop is past it.
C10_FailingFetchNeverFatal ==
    (/\ loop.pc \in {"process", "sleep", "crashed"}
     /\ lastOp.op # "init_day_raised"
     /\ \E i \in 1..Len(loop.results) : loop.results[i].err # None)
    => /\ loop.error # Some("TypeError")
       /\ \A i \in 1..Len(loop.results) :
             /\ loop.results[i].err # None => ~HasRow(i)
             /\ (i < loop.idx /\ ~skipped(loop.results[i])) => HasRow(i)

\* The result the loop is about to process is a book with an empty side.
AtEmptySidedBook ==
    /\ loop.pc = "process"
    /\ loop.idx <= Len(loop.results)
    /\ LET res == loop.results[loop.idx] IN
          /\ res.err = None
          /\ res.ob # None
          /\ (res.ob[1].bids = <<>> \/ res.ob[1].asks = <<>>)

\* C11: a fetched book with an empty bid side or an empty ask side is passed
\* over: the step that handles it appends no CSV row and calls no add, so the
\* local CSV files and the Averager (accumulators and series) are unchanged,
\* and the loop moves on to the next result.
C11_EmptySideIsNoData ==
    [][AtEmptySidedBook =>
          /\ localCsv' = localCsv
          /\ state' = state
          /\ series' = series
          /\ nOps' = nOps
          /\ loop'.pc = "process"
          /\ loop'.idx = loop.idx + 1]_vars

\* C11 witness: the loop has just passed over a book with bids and no asks.
C11_Witness ==
    /\ lastOp.op = "skip"
    /\ loop.idx > 1
    /\ loop.results[loop.idx - 1].ob = Some(BidsOnlyBook)
    /\ loop.results[loop.idx - 1].err = None
    /\ loop.error = None

\* C12: a failed upload in the periodic upload step leaves the local CSV files
\* as they were and the poll loop running (so that a later upload step can
\* upload the files again).
C12_FailedUploadKeepsLoopRunning ==
    [][lastOp'.op = "upload_raised" =>
          /\ localCsv' = localCsv
          /\ loop'.pc # "crashed"
          /\ loop'.error = None]_vars

\* C13: every book an adapter returns with an empty bid side or an empty ask
\* side has price, best_bid and best_ask all null.
C13_EmptySideMeansNullQuote ==
    fetched # None =>
       ((fetched.ob.bids = <<>> \/ fetched.ob.asks = <<>>) =>
           /\ fetched.ob.price = None
           /\ fetched.ob.best_bid = None
           /\ fetched.ob.best_ask = None)

\* The number of compose_day runs made for a day.
ComposeRuns(d) ==
    Cardinality({i \in DOMAIN composer.composed : composer.composed[i].day = d})

\* C14: no day is composed twice; each compose_day run is for the day before
\* and starts between 00:03 and 01:00 UTC; and once the composer wakes after
\* 01:00 of a day whose midnight passed while it ran, the day before has been
\* composed exactly once.
C14_EachDayComposedOnce ==
    /\ \A i \in DOMAIN composer.composed :
          LET run == composer.composed[i] IN
          /\ ComposeRuns(run.day) = 1
          /\ day_of(run.at) = run.day + 1
          /\ run.at % SecondsPerDay >= compose_minute * SecondsPerMinute
          /\ run.at % SecondsPerDay < SecondsPerHour
    /\ \A d \in 1..(ComposerDays + 1) :
          (composer.start < d * SecondsPerDay
             /\ composer.now >= d * SecondsPerDay + SecondsPerHour)
          => ComposeRuns(d - 1) = 1

\* C14 witness: the composer has run through two midnights and the hour after
\* each, and the second day's compose ran after a wake-up before 00:03.
C14_Witness ==
    /\ composer.pc = "wake"
    /\ composer.now >= 2 * SecondsPerDay + SecondsPerHour
    /\ ComposeRuns(0) = 1
    /\ ComposeRuns(1) = 1
    /\ Len(composer.composed) >= 2

\* The sum of ask price - bid price over the levels first..d, first >= 1.
RECURSIVE SpreadSum(_, _, _, _)
SpreadSum(bids, asks, first, d) ==
    IF first > d THEN 0
    ELSE (asks[first][1] - bids[first][1]) + SpreadSum(bids, asks, first + 1, d)

\* C15: layered_avg_spread(bids, asks, depth) is null exactly when
\* d = min(depth, len(bids), len(asks)) is 0, and is otherwise the mean of
\* ask price - bid price over the first d levels.
C15_LayeredAvgSpread ==
    lastOp.op = "layered_avg_spread" =>
       LET d == Min(lastOp.depth, Min(Len(lastOp.bids), Len(lastOp.asks))) IN
       /\ (lastOp.result = None) <=> (d = 0)
       /\ d > 0 =>
             IsQuotient(lastOp.result[1], SpreadSum(lastOp.bids, lastOp.asks, 1, d), d)

\* C15 witness: a call with two bid levels, one ask level and depth 5, which
\* averages over one level and returns a value.
C15_Witness ==
    /\ lastOp.op = "layered_avg_spread"
    /\ lastOp.depth = 5
    /\ Len(lastOp.bids) = 2
    /\ Len(lastOp.asks) = 1
    /\ lastOp.result # None
    /\ lastOp.result[1][1] # 0

\* The loop is at the top of a cycle on a day it has not initialised: at process
\* start, or after a UTC day rollover.
AtNewDay == loop.pc = "top" /\ loop.current_day # Some(day_of(loop.clock))

\* The rows of a pair's daily JSON in the bucket, none when it has no such blob.
RemoteRows(ex_name, asset, day_iso) ==
    IF daily_json_key(ex_name, asset, day_iso) \in DOMAIN blobJson
    THEN blobJson[daily_json_key(ex_name, asset, day_iso)] ELSE <<>>

\* C16: at process start and at every day rollover the loop's next step is
\* init_day, which calls replace_series exactly once for each enabled pair's
\* key, in order, with the rows of that day's JSON in the bucket (no rows when
\* there is none); no step outside init_day replaces a pair's series; and add
\* is called with a tick of a day only after that day's replace_series calls.
C16_ReplaceOncePerKeyPerDay ==
    [][/\ AtNewDay => lastOp'.op = "init_day"
       /\ lastOp'.op = "init_day" =>
             /\ AtNewDay
             /\ lastOp'.day = day_of(loop.clock)
             /\ Len(lastOp'.calls) = Len(PairSeq)
             /\ \A i \in 1..Len(PairSeq) :
                   LET hits == {j \in DOMAIN lastOp'.calls :
                                   lastOp'.calls[j].key = series_key(PairSeq[i][1], PairSeq[i][2])}
                   IN  /\ hits = {i}
                       /\ lastOp'.calls[i].rows =
                             RemoteRows(PairSeq[i][1], PairSeq[i][2], lastOp'.day)
                       /\ series'[series_key(PairSeq[i][1], PairSeq[i][2])] =
                             RemoteRows(PairSeq[i][1], PairSeq[i][2], lastOp'.day)
       /\ lastOp'.op \notin {"init_day", "init_day_raised"} =>
             \A k \in PairKeys :
                /\ series_get(series', k) = series_get(series, k)
                /\ resumed'[k] = resumed[k]
       /\ lastOp'.op \in {"add", "add_raised"} =>
             loop.current_day = Some(day_of(lastOp'.ts))]_vars

\* C17: while a fetch of the cycle is in flight the loop only waits; a step
\* that appends a CSV row or calls add is taken only when no fetch is in
\* flight and the cycle's results hold every pair's fetch; and such a step
\* handles one result, the next in order, and makes at most one add call.
C17_NoProcessingWhileFetching ==
    [][/\ loop.inflight # {} => loop.pc = "gather"
       /\ ((\E lp \in DOMAIN localCsv : localCsv'[lp] # localCsv[lp])
             \/ lastOp'.op \in {"add", "add_raised", "skip"}) =>
             /\ loop.pc = "process"
             /\ loop.inflight = {}
             /\ Len(loop.results) = Len(PairSeq)
             /\ \A i \in 1..Len(PairSeq) :
                   /\ loop.results[i].ex_name = PairSeq[i][1]
                   /\ loop.results[i].asset = PairSeq[i][2]
             /\ nOps' <= nOps + 1
             /\ (loop'.pc = "process" => loop'.idx = loop.idx + 1)]_vars

\* C17 witness: every fetch of the cycle has finished, the first pair's with
\* an error; the loop passed that result over, then took the second pair's
\* book, appended its row and called add.
C17_Witness ==
    /\ lastOp.op = "add_raised"
    /\ loop.inflight = {}
    /\ Len(loop.results) = Len(PairSeq)
    /\ loop.results[1].err # None
    /\ loop.idx = 2

\* logger.py:180-184 : the step that appends a row to a local CSV is the step
\* whose minute.add call raises: it ends the loop, so no run of the loop both
\* appends a row and goes on to an upload step.
RowAppendEndsLoop ==
    [][(\E lp \in DOMAIN localCsv :
           lp \in DOMAIN localCsv' /\ Len(localCsv'[lp]) > Len(localCsv[lp]))
         => loop'.pc = "crashed"]_vars

====
